---- MODULE Spec2Model ----
(***************************************************************************)
(* Kindle highlights: the clippings parser (parse_clippings), the merge    *)
(* (deduplicate_highlights), the import run (import_clippings.main) and    *)
(* the digest sampler (get_random_highlights).                             *)
(*                                                                         *)
(* A Python str is a sequence of one-character strings; a dict is a record *)
(* whose optional keys are record fields that may be missing (added_at) or *)
(* hold the empty string when the code leaves the key out (location, page).*)
(***************************************************************************)
EXTENDS Integers, Sequences, FiniteSets, TLC

VARIABLES pc, content, entries, idx, highlights, skipped,
          existing, merged, added, clock, merges, store0, objs,
          pool, count, book_keys, selected,
          file_found, disk, dry_run, writes, runs,
          mpc, mlist, oruns

parseVars  == <<content, entries, idx, highlights, skipped>>
mergeVars  == <<existing, merged, added, clock, merges, store0, objs>>
sampleVars == <<pool, count, book_keys, selected>>
importVars == <<file_found, disk, dry_run, writes, runs>>
writerVars == <<mpc, mlist, oruns>>
vars == <<pc, parseVars, mergeVars, sampleVars, importVars, writerVars>>

----------------------------------------------------------------------------
(* Bounds of the model.                                                    *)

\* lines of an enumerated clippings file
MaxLines == 4
\* blocks of a file assembled from whole blocks
MaxBlocks == 2
\* highlights in the list passed to one merge
MaxNew == 2
\* records of the store before the first merge
MaxExisting == 2
\* merges of one behaviour, not counting the repeated ones
MaxMerges == 1
\* highlights in the pool the sampler draws from
MaxPool == 4
\* the number of highlights asked of the sampler
MaxCount == 3
\* import runs of one behaviour
MaxRuns == 2
\* runs of the other scripts that write the store, in one behaviour
MaxOtherRuns == 1
\* advances of the clock while one merge runs
MaxTicks == 1

----------------------------------------------------------------------------
(* Strings.                                                                *)

SetMin(S) == CHOOSE x \in S : \A y \in S : x <= y
SetMax(S) == CHOOSE x \in S : \A y \in S : x >= y

\* the characters c with c.isspace(), which str.strip() removes and \s matches;
\* a character outside ASCII and the escapes of a string is written <U+XXXX>
Whitespace ==
    {"\t", "\n", "<U+000B>", "\f", "\r", "<U+001C>", "<U+001D>", "<U+001E>",
     "<U+001F>", " ", "<U+0085>", "<U+00A0>", "<U+1680>", "<U+2000>",
     "<U+2001>", "<U+2002>", "<U+2003>", "<U+2004>", "<U+2005>", "<U+2006>",
     "<U+2007>", "<U+2008>", "<U+2009>", "<U+200A>", "<U+2028>", "<U+2029>",
     "<U+202F>", "<U+205F>", "<U+3000>"}

\* the characters \d matches in a str pattern: every Unicode decimal digit
Digits ==
    {"0", "1", "2", "3", "4", "5", "6", "7", "8", "9", "<U+0660>",
     "<U+0661>", "<U+0662>", "<U+0663>", "<U+0664>", "<U+0665>", "<U+0666>",
     "<U+0667>", "<U+0668>", "<U+0669>", "<U+06F0>", "<U+06F1>", "<U+06F2>",
     "<U+06F3>", "<U+06F4>", "<U+06F5>", "<U+06F6>", "<U+06F7>", "<U+06F8>",
     "<U+06F9>", "<U+07C0>", "<U+07C1>", "<U+07C2>", "<U+07C3>", "<U+07C4>",
     "<U+07C5>", "<U+07C6>", "<U+07C7>", "<U+07C8>", "<U+07C9>", "<U+0966>",
     "<U+0967>", "<U+0968>", "<U+0969>", "<U+096A>", "<U+096B>", "<U+096C>",
     "<U+096D>", "<U+096E>", "<U+096F>", "<U+09E6>", "<U+09E7>", "<U+09E8>",
     "<U+09E9>", "<U+09EA>", "<U+09EB>", "<U+09EC>", "<U+09ED>", "<U+09EE>",
     "<U+09EF>", "<U+0A66>", "<U+0A67>", "<U+0A68>", "<U+0A69>", "<U+0A6A>",
     "<U+0A6B>", "<U+0A6C>", "<U+0A6D>", "<U+0A6E>", "<U+0A6F>", "<U+0AE6>",
     "<U+0AE7>", "<U+0AE8>", "<U+0AE9>", "<U+0AEA>", "<U+0AEB>", "<U+0AEC>",
     "<U+0AED>", "<U+0AEE>", "<U+0AEF>", "<U+0B66>", "<U+0B67>", "<U+0B68>",
     "<U+0B69>", "<U+0B6A>", "<U+0B6B>", "<U+0B6C>", "<U+0B6D>", "<U+0B6E>",
     "<U+0B6F>", "<U+0BE6>", "<U+0BE7>", "<U+0BE8>", "<U+0BE9>", "<U+0BEA>",
     "<U+0BEB>", "<U+0BEC>", "<U+0BED>", "<U+0BEE>", "<U+0BEF>", "<U+0C66>",
     "<U+0C67>", "<U+0C68>", "<U+0C69>", "<U+0C6A>", "<U+0C6B>", "<U+0C6C>",
     "<U+0C6D>", "<U+0C6E>", "<U+0C6F>", "<U+0CE6>", "<U+0CE7>", "<U+0CE8>",
     "<U+0CE9>", "<U+0CEA>", "<U+0CEB>", "<U+0CEC>", "<U+0CED>", "<U+0CEE>",
     "<U+0CEF>", "<U+0D66>", "<U+0D67>", "<U+0D68>", "<U+0D69>", "<U+0D6A>",
     "<U+0D6B>", "<U+0D6C>", "<U+0D6D>", "<U+0D6E>", "<U+0D6F>", "<U+0DE6>",
     "<U+0DE7>", "<U+0DE8>", "<U+0DE9>", "<U+0DEA>", "<U+0DEB>", "<U+0DEC>",
     "<U+0DED>", "<U+0DEE>", "<U+0DEF>", "<U+0E50>", "<U+0E51>", "<U+0E52>",
     "<U+0E53>", "<U+0E54>", "<U+0E55>", "<U+0E56>", "<U+0E57>", "<U+0E58>",
     "<U+0E59>", "<U+0ED0>", "<U+0ED1>", "<U+0ED2>", "<U+0ED3>", "<U+0ED4>",
     "<U+0ED5>", "<U+0ED6>", "<U+0ED7>", "<U+0ED8>", "<U+0ED9>", "<U+0F20>",
     "<U+0F21>", "<U+0F22>", "<U+0F23>", "<U+0F24>", "<U+0F25>", "<U+0F26>",
     "<U+0F27>", "<U+0F28>", "<U+0F29>", "<U+1040>", "<U+1041>", "<U+1042>",
     "<U+1043>", "<U+1044>", "<U+1045>", "<U+1046>", "<U+1047>", "<U+1048>",
     "<U+1049>", "<U+1090>", "<U+1091>", "<U+1092>", "<U+1093>", "<U+1094>",
     "<U+1095>", "<U+1096>", "<U+1097>", "<U+1098>", "<U+1099>", "<U+17E0>",
     "<U+17E1>", "<U+17E2>", "<U+17E3>", "<U+17E4>", "<U+17E5>", "<U+17E6>",
     "<U+17E7>", "<U+17E8>", "<U+17E9>", "<U+1810>", "<U+1811>", "<U+1812>",
     "<U+1813>", "<U+1814>", "<U+1815>", "<U+1816>", "<U+1817>", "<U+1818>",
     "<U+1819>", "<U+1946>", "<U+1947>", "<U+1948>", "<U+1949>", "<U+194A>",
     "<U+194B>", "<U+194C>", "<U+194D>", "<U+194E>", "<U+194F>", "<U+19D0>",
     "<U+19D1>", "<U+19D2>", "<U+19D3>", "<U+19D4>", "<U+19D5>", "<U+19D6>",
     "<U+19D7>", "<U+19D8>", "<U+19D9>", "<U+1A80>", "<U+1A81>", "<U+1A82>",
     "<U+1A83>", "<U+1A84>", "<U+1A85>", "<U+1A86>", "<U+1A87>", "<U+1A88>",
     "<U+1A89>", "<U+1A90>", "<U+1A91>", "<U+1A92>", "<U+1A93>", "<U+1A94>",
     "<U+1A95>", "<U+1A96>", "<U+1A97>", "<U+1A98>", "<U+1A99>", "<U+1B50>",
     "<U+1B51>", "<U+1B52>", "<U+1B53>", "<U+1B54>", "<U+1B55>", "<U+1B56>",
     "<U+1B57>", "<U+1B58>", "<U+1B59>", "<U+1BB0>", "<U+1BB1>", "<U+1BB2>",
     "<U+1BB3>", "<U+1BB4>", "<U+1BB5>", "<U+1BB6>", "<U+1BB7>", "<U+1BB8>",
     "<U+1BB9>", "<U+1C40>", "<U+1C41>", "<U+1C42>", "<U+1C43>", "<U+1C44>",
     "<U+1C45>", "<U+1C46>", "<U+1C47>", "<U+1C48>", "<U+1C49>", "<U+1C50>",
     "<U+1C51>", "<U+1C52>", "<U+1C53>", "<U+1C54>", "<U+1C55>", "<U+1C56>",
     "<U+1C57>", "<U+1C58>", "<U+1C59>", "<U+A620>", "<U+A621>", "<U+A622>",
     "<U+A623>", "<U+A624>", "<U+A625>", "<U+A626>", "<U+A627>", "<U+A628>",
     "<U+A629>", "<U+A8D0>", "<U+A8D1>", "<U+A8D2>", "<U+A8D3>", "<U+A8D4>",
     "<U+A8D5>", "<U+A8D6>", "<U+A8D7>", "<U+A8D8>", "<U+A8D9>", "<U+A900>",
     "<U+A901>", "<U+A902>", "<U+A903>", "<U+A904>", "<U+A905>", "<U+A906>",
     "<U+A907>", "<U+A908>", "<U+A909>", "<U+A9D0>", "<U+A9D1>", "<U+A9D2>",
     "<U+A9D3>", "<U+A9D4>", "<U+A9D5>", "<U+A9D6>", "<U+A9D7>", "<U+A9D8>",
     "<U+A9D9>", "<U+A9F0>", "<U+A9F1>", "<U+A9F2>", "<U+A9F3>", "<U+A9F4>",
     "<U+A9F5>", "<U+A9F6>", "<U+A9F7>", "<U+A9F8>", "<U+A9F9>", "<U+AA50>",
     "<U+AA51>", "<U+AA52>", "<U+AA53>", "<U+AA54>", "<U+AA55>", "<U+AA56>",
     "<U+AA57>", "<U+AA58>", "<U+AA59>", "<U+ABF0>", "<U+ABF1>", "<U+ABF2>",
     "<U+ABF3>", "<U+ABF4>", "<U+ABF5>", "<U+ABF6>", "<U+ABF7>", "<U+ABF8>",
     "<U+ABF9>", "<U+FF10>", "<U+FF11>", "<U+FF12>", "<U+FF13>", "<U+FF14>",
     "<U+FF15>", "<U+FF16>", "<U+FF17>", "<U+FF18>", "<U+FF19>", "<U+104A0>",
     "<U+104A1>", "<U+104A2>", "<U+104A3>", "<U+104A4>", "<U+104A5>",
     "<U+104A6>", "<U+104A7>", "<U+104A8>", "<U+104A9>", "<U+10D30>",
     "<U+10D31>", "<U+10D32>", "<U+10D33>", "<U+10D34>", "<U+10D35>",
     "<U+10D36>", "<U+10D37>", "<U+10D38>", "<U+10D39>", "<U+11066>",
     "<U+11067>", "<U+11068>", "<U+11069>", "<U+1106A>", "<U+1106B>",
     "<U+1106C>", "<U+1106D>", "<U+1106E>", "<U+1106F>", "<U+110F0>",
     "<U+110F1>", "<U+110F2>", "<U+110F3>", "<U+110F4>", "<U+110F5>",
     "<U+110F6>", "<U+110F7>", "<U+110F8>", "<U+110F9>", "<U+11136>",
     "<U+11137>", "<U+11138>", "<U+11139>", "<U+1113A>", "<U+1113B>",
     "<U+1113C>", "<U+1113D>", "<U+1113E>", "<U+1113F>", "<U+111D0>",
     "<U+111D1>", "<U+111D2>", "<U+111D3>", "<U+111D4>", "<U+111D5>",
     "<U+111D6>", "<U+111D7>", "<U+111D8>", "<U+111D9>", "<U+112F0>",
     "<U+112F1>", "<U+112F2>", "<U+112F3>", "<U+112F4>", "<U+112F5>",
     "<U+112F6>", "<U+112F7>", "<U+112F8>", "<U+112F9>", "<U+11450>",
     "<U+11451>", "<U+11452>", "<U+11453>", "<U+11454>", "<U+11455>",
     "<U+11456>", "<U+11457>", "<U+11458>", "<U+11459>", "<U+114D0>",
     "<U+114D1>", "<U+114D2>", "<U+114D3>", "<U+114D4>", "<U+114D5>",
     "<U+114D6>", "<U+114D7>", "<U+114D8>", "<U+114D9>", "<U+11650>",
     "<U+11651>", "<U+11652>", "<U+11653>", "<U+11654>", "<U+11655>",
     "<U+11656>", "<U+11657>", "<U+11658>", "<U+11659>", "<U+116C0>",
     "<U+116C1>", "<U+116C2>", "<U+116C3>", "<U+116C4>", "<U+116C5>",
     "<U+116C6>", "<U+116C7>", "<U+116C8>", "<U+116C9>", "<U+11730>",
     "<U+11731>", "<U+11732>", "<U+11733>", "<U+11734>", "<U+11735>",
     "<U+11736>", "<U+11737>", "<U+11738>", "<U+11739>", "<U+118E0>",
     "<U+118E1>", "<U+118E2>", "<U+118E3>", "<U+118E4>", "<U+118E5>",
     "<U+118E6>", "<U+118E7>", "<U+118E8>", "<U+118E9>", "<U+11950>",
     "<U+11951>", "<U+11952>", "<U+11953>", "<U+11954>", "<U+11955>",
     "<U+11956>", "<U+11957>", "<U+11958>", "<U+11959>", "<U+11C50>",
     "<U+11C51>", "<U+11C52>", "<U+11C53>", "<U+11C54>", "<U+11C55>",
     "<U+11C56>", "<U+11C57>", "<U+11C58>", "<U+11C59>", "<U+11D50>",
     "<U+11D51>", "<U+11D52>", "<U+11D53>", "<U+11D54>", "<U+11D55>",
     "<U+11D56>", "<U+11D57>", "<U+11D58>", "<U+11D59>", "<U+11DA0>",
     "<U+11DA1>", "<U+11DA2>", "<U+11DA3>", "<U+11DA4>", "<U+11DA5>",
     "<U+11DA6>", "<U+11DA7>", "<U+11DA8>", "<U+11DA9>", "<U+16A60>",
     "<U+16A61>", "<U+16A62>", "<U+16A63>", "<U+16A64>", "<U+16A65>",
     "<U+16A66>", "<U+16A67>", "<U+16A68>", "<U+16A69>", "<U+16AC0>",
     "<U+16AC1>", "<U+16AC2>", "<U+16AC3>", "<U+16AC4>", "<U+16AC5>",
     "<U+16AC6>", "<U+16AC7>", "<U+16AC8>", "<U+16AC9>", "<U+16B50>",
     "<U+16B51>", "<U+16B52>", "<U+16B53>", "<U+16B54>", "<U+16B55>",
     "<U+16B56>", "<U+16B57>", "<U+16B58>", "<U+16B59>", "<U+1D7CE>",
     "<U+1D7CF>", "<U+1D7D0>", "<U+1D7D1>", "<U+1D7D2>", "<U+1D7D3>",
     "<U+1D7D4>", "<U+1D7D5>", "<U+1D7D6>", "<U+1D7D7>", "<U+1D7D8>",
     "<U+1D7D9>", "<U+1D7DA>", "<U+1D7DB>", "<U+1D7DC>", "<U+1D7DD>",
     "<U+1D7DE>", "<U+1D7DF>", "<U+1D7E0>", "<U+1D7E1>", "<U+1D7E2>",
     "<U+1D7E3>", "<U+1D7E4>", "<U+1D7E5>", "<U+1D7E6>", "<U+1D7E7>",
     "<U+1D7E8>", "<U+1D7E9>", "<U+1D7EA>", "<U+1D7EB>", "<U+1D7EC>",
     "<U+1D7ED>", "<U+1D7EE>", "<U+1D7EF>", "<U+1D7F0>", "<U+1D7F1>",
     "<U+1D7F2>", "<U+1D7F3>", "<U+1D7F4>", "<U+1D7F5>", "<U+1D7F6>",
     "<U+1D7F7>", "<U+1D7F8>", "<U+1D7F9>", "<U+1D7FA>", "<U+1D7FB>",
     "<U+1D7FC>", "<U+1D7FD>", "<U+1D7FE>", "<U+1D7FF>", "<U+1E140>",
     "<U+1E141>", "<U+1E142>", "<U+1E143>", "<U+1E144>", "<U+1E145>",
     "<U+1E146>", "<U+1E147>", "<U+1E148>", "<U+1E149>", "<U+1E2F0>",
     "<U+1E2F1>", "<U+1E2F2>", "<U+1E2F3>", "<U+1E2F4>", "<U+1E2F5>",
     "<U+1E2F6>", "<U+1E2F7>", "<U+1E2F8>", "<U+1E2F9>", "<U+1E950>",
     "<U+1E951>", "<U+1E952>", "<U+1E953>", "<U+1E954>", "<U+1E955>",
     "<U+1E956>", "<U+1E957>", "<U+1E958>", "<U+1E959>", "<U+1FBF0>",
     "<U+1FBF1>", "<U+1FBF2>", "<U+1FBF3>", "<U+1FBF4>", "<U+1FBF5>",
     "<U+1FBF6>", "<U+1FBF7>", "<U+1FBF8>", "<U+1FBF9>"}

\* U+FEFF, the byte-order mark; not whitespace
BOM == "<U+FEFF>"

\* the characters the letter k of a pattern matches under re.IGNORECASE
IgnoreCase(k) ==
    CASE k = "a" -> {"A", "a"}
      [] k = "b" -> {"B", "b"}
      [] k = "c" -> {"C", "c"}
      [] k = "d" -> {"D", "d"}
      [] k = "e" -> {"E", "e"}
      [] k = "f" -> {"F", "f"}
      [] k = "g" -> {"G", "g"}
      [] k = "h" -> {"H", "h"}
      [] k = "i" -> {"I", "i", "<U+0130>", "<U+0131>"}
      [] k = "j" -> {"J", "j"}
      [] k = "k" -> {"K", "k", "<U+212A>"}
      [] k = "l" -> {"L", "l"}
      [] k = "m" -> {"M", "m"}
      [] k = "n" -> {"N", "n"}
      [] k = "o" -> {"O", "o"}
      [] k = "p" -> {"P", "p"}
      [] k = "q" -> {"Q", "q"}
      [] k = "r" -> {"R", "r"}
      [] k = "s" -> {"S", "s", "<U+017F>"}
      [] k = "t" -> {"T", "t"}
      [] k = "u" -> {"U", "u"}
      [] k = "v" -> {"V", "v"}
      [] k = "w" -> {"W", "w"}
      [] k = "x" -> {"X", "x"}
      [] k = "y" -> {"Y", "y"}
      [] k = "z" -> {"Z", "z"}
      [] OTHER -> {k}

\* the literal pattern kw matches the whole of s under re.IGNORECASE
MatchesIgnoreCase(s, kw) ==
    /\ Len(s) = Len(kw)
    /\ \A j \in 1..Len(kw) : s[j] \in IgnoreCase(kw[j])

\* s[a-1:b] of Python, 1-based and inclusive; empty when b < a
Slice(s, a, b) == IF b < a THEN <<>> ELSE SubSeq(s, a, b)

\* str.strip()
Strip(s) ==
    LET keep == {i \in 1..Len(s) : s[i] \notin Whitespace}
    IN  IF keep = {} THEN <<>> ELSE SubSeq(s, SetMin(keep), SetMax(keep))

\* str.lstrip(chars)
LStripChars(s, chars) ==
    LET keep == {i \in 1..Len(s) : s[i] \notin chars}
    IN  IF keep = {} THEN <<>> ELSE SubSeq(s, SetMin(keep), Len(s))

\* str.find(p) + 1: the first position of p in s, 0 when there is none
Find(s, p) ==
    LET hits == {i \in 1..(Len(s) - Len(p) + 1) : SubSeq(s, i, i + Len(p) - 1) = p}
    IN  IF hits = {} THEN 0 ELSE SetMin(hits)

\* p in s
Contains(s, p) == Find(s, p) # 0

\* str.split(sep)
RECURSIVE Split(_, _)
Split(s, sep) ==
    LET i == Find(s, sep)
    IN  IF i = 0 THEN <<s>>
        ELSE <<Slice(s, 1, i - 1)>> \o Split(Slice(s, i + Len(sep), Len(s)), sep)

\* sep.join(parts)
RECURSIVE Join(_, _)
Join(parts, sep) ==
    IF parts = <<>> THEN <<>>
    ELSE IF Len(parts) = 1 THEN parts[1]
    ELSE parts[1] \o sep \o Join(Tail(parts), sep)

\* the end of the longest run of characters of `cls` starting at k (k-1: no run)
RunEnd(s, k, cls) ==
    LET stop == {j \in k..Len(s) : s[j] \notin cls}
    IN  IF stop = {} THEN Len(s) ELSE SetMin(stop) - 1

----------------------------------------------------------------------------
(* parse_clippings: the regular expressions.                               *)

NEWLINE == <<"\n">>
SEPARATOR == <<"=", "=", "=", "=", "=", "=", "=", "=", "=", "=">>
YOUR_BOOKMARK == <<"Y", "o", "u", "r", " ", "B", "o", "o", "k", "m", "a", "r", "k">>
YOUR_NOTE == <<"Y", "o", "u", "r", " ", "N", "o", "t", "e">>
UNKNOWN_AUTHOR == <<"U", "n", "k", "n", "o", "w", "n", " ", "A", "u", "t", "h", "o", "r">>
KW_LOCATION == <<"l", "o", "c", "a", "t", "i", "o", "n">>
KW_PAGE == <<"p", "a", "g", "e">>

\* re.search(r'\(([^)]+)\)\s*$', line): the start of the leftmost match, 0 when
\* there is none. The closing parenthesis is the last character that is not
\* whitespace, and the group holds at least one character and no ')'.
AuthorMatchStart(line) ==
    LET keep == {i \in 1..Len(line) : line[i] \notin Whitespace}
        e == IF keep = {} THEN 0 ELSE SetMax(keep)
        starts == {i \in 1..Len(line) :
                      /\ line[i] = "("
                      /\ i + 1 <= e - 1
                      /\ line[e] = ")"
                      /\ \A j \in (i + 1)..(e - 1) : line[j] # ")"}
    IN  IF starts = {} THEN 0 ELSE SetMin(starts)

\* group(1) of that match
AuthorGroup(line) ==
    LET keep == {i \in 1..Len(line) : line[i] \notin Whitespace}
    IN  Slice(line, AuthorMatchStart(line) + 1, SetMax(keep) - 1)

\* re.search(kw + r'\s+(\d+)', line, re.IGNORECASE): the start of the leftmost
\* match, 0 when there is none
KeywordMatchStart(line, kw) ==
    LET starts == {i \in 1..(Len(line) - Len(kw) + 1) :
                      /\ MatchesIgnoreCase(SubSeq(line, i, i + Len(kw) - 1), kw)
                      /\ RunEnd(line, i + Len(kw), Whitespace) >= i + Len(kw)
                      /\ LET d == RunEnd(line, i + Len(kw), Whitespace) + 1
                         IN  RunEnd(line, d, Digits) >= d}
    IN  IF starts = {} THEN 0 ELSE SetMin(starts)

\* group(1) of that match: the digits after the keyword and its whitespace
KeywordNumber(line, kw) ==
    LET i == KeywordMatchStart(line, kw)
        d == RunEnd(line, i + Len(kw), Whitespace) + 1
    IN  SubSeq(line, d, RunEnd(line, d, Digits))

\* group(2) of r'location\s+(\d+)(?:-(\d+))?': the digits after '-', empty
\* (None) when the optional group does not take part in the match
LocationEnd(line) ==
    LET i == KeywordMatchStart(line, KW_LOCATION)
        d == RunEnd(line, i + Len(KW_LOCATION), Whitespace) + 1
        h == RunEnd(line, d, Digits) + 1
    IN  IF h <= Len(line) /\ line[h] = "-" /\ RunEnd(line, h + 1, Digits) >= h + 1
        THEN SubSeq(line, h + 1, RunEnd(line, h + 1, Digits))
        ELSE <<>>

\* the location string of the metadata line, empty (None) without a match
Location(metadata_line) ==
    IF KeywordMatchStart(metadata_line, KW_LOCATION) = 0 THEN <<>>
    ELSE LET start == KeywordNumber(metadata_line, KW_LOCATION)
             end == IF LocationEnd(metadata_line) # <<>>
                    THEN LocationEnd(metadata_line) ELSE start
         IN  start \o <<"-">> \o end

\* the page of the metadata line, empty (None) without a match
Page(metadata_line) ==
    IF KeywordMatchStart(metadata_line, KW_PAGE) = 0 THEN <<>>
    ELSE KeywordNumber(metadata_line, KW_PAGE)

----------------------------------------------------------------------------
(* parse_clippings: one entry.                                             *)

\* entry.strip().split('\n')
EntryLines(entry) == Split(Strip(entry), NEWLINE)

\* lines[0].strip().lstrip('\ufeff').strip()
TitleLine(lines) == Strip(LStripChars(Strip(lines[1]), {BOM}))

Author(title_line) ==
    IF AuthorMatchStart(title_line) # 0
    THEN Strip(AuthorGroup(title_line))
    ELSE UNKNOWN_AUTHOR

Title(title_line) ==
    IF AuthorMatchStart(title_line) # 0
    THEN Strip(Slice(title_line, 1, AuthorMatchStart(title_line) - 1))
    ELSE title_line

\* lines[1].strip() if len(lines) > 1 else ""
MetadataLine(lines) == IF Len(lines) > 1 THEN Strip(lines[2]) ELSE <<>>

\* '\n'.join(line.strip() for line in lines[3:] if line.strip())
JoinedBody(lines) ==
    LET rest == Slice(lines, 4, Len(lines))
        kept == SelectSeq(rest, LAMBDA line : Strip(line) # <<>>)
    IN  Join([i \in 1..Len(kept) |-> Strip(kept[i])], NEWLINE)

\* highlight_text without the fallback to lines[2]
HighlightTextNoFallback(lines) == JoinedBody(lines)

\* highlight_text, the fallback taking lines[2] as it is
HighlightTextUnstripped(lines) ==
    IF JoinedBody(lines) = <<>> /\ Len(lines) > 2
    THEN lines[3]
    ELSE JoinedBody(lines)

\* highlight_text, after the fallback to lines[2]
HighlightText(lines) ==
    IF JoinedBody(lines) = <<>> /\ Len(lines) > 2
    THEN Strip(lines[3])
    ELSE JoinedBody(lines)

\* highlight_data
HighlightData(lines) ==
    [title    |-> Title(TitleLine(lines)),
     author   |-> Author(TitleLine(lines)),
     text     |-> HighlightText(lines),
     location |-> Location(MetadataLine(lines)),
     page     |-> Page(MetadataLine(lines))]

----------------------------------------------------------------------------
(* parse_clippings: the loop body and the loop.                            *)

\* the branch of the loop body an entry takes; "dropped" is the fall-through
\* of `if highlight_text:`, which neither appends nor counts
EntryKind(entry) ==
    LET lines == EntryLines(entry)
    IN  IF Strip(entry) = <<>> THEN "blank"
        ELSE IF Len(lines) < 3 THEN "short"
        ELSE IF Contains(MetadataLine(lines), YOUR_BOOKMARK) THEN "bookmark"
        ELSE IF Contains(MetadataLine(lines), YOUR_NOTE) THEN "note"
        ELSE IF HighlightText(lines) # <<>> THEN "highlight"
        ELSE "dropped"

\* the counter a branch increments, "" when it increments none
CounterOf(kind) ==
    CASE kind \in {"blank", "short"} -> "empty"
      [] kind = "bookmark" -> "bookmarks"
      [] kind = "note" -> "notes"
      [] OTHER -> ""

\* one pass of the loop body over `entry`: the new (highlights, skipped)
EntryStep(st, entry) ==
    LET kind == EntryKind(entry)
    IN  [highlights |-> IF kind = "highlight"
                        THEN Append(st.highlights, HighlightData(EntryLines(entry)))
                        ELSE st.highlights,
         skipped    |-> IF CounterOf(kind) # ""
                        THEN [st.skipped EXCEPT ![CounterOf(kind)] = @ + 1]
                        ELSE st.skipped]

NoneSkipped == [bookmarks |-> 0, notes |-> 0, empty |-> 0]

RECURSIVE ParseLoop(_, _)
ParseLoop(st, es) ==
    IF es = <<>> THEN st ELSE ParseLoop(EntryStep(st, Head(es)), Tail(es))

\* parse_clippings, on the decoded content of the file
ParseClippings(text) ==
    ParseLoop([highlights |-> <<>>, skipped |-> NoneSkipped], Split(text, SEPARATOR))

----------------------------------------------------------------------------
(* parse_clippings step by step: one action per branch of the loop body.   *)

notParse == <<existing, merged, added, clock, merges, store0, objs,
              pool, count, book_keys, selected, file_found, disk, dry_run, writes, runs,
              mpc, mlist, oruns>>

\* the loop is at entries[idx], which takes the branch `kind`
AtEntry(kind) ==
    /\ pc = "loop"
    /\ idx <= Len(entries)
    /\ EntryKind(entries[idx]) = kind

\* the loop body on entries[idx]
LoopBody ==
    /\ LET st == EntryStep([highlights |-> highlights, skipped |-> skipped], entries[idx])
       IN  highlights' = st.highlights /\ skipped' = st.skipped
    /\ idx' = idx + 1
    /\ UNCHANGED <<pc, content, entries, notParse>>

\* content.split('==========')
SplitEntries ==
    /\ pc = "read"
    /\ entries' = Split(content, SEPARATOR)
    /\ idx' = 1
    /\ pc' = "loop"
    /\ UNCHANGED <<content, highlights, skipped, notParse>>

\* if not entry: skipped['empty'] += 1; continue
SkipBlankEntry ==
    /\ AtEntry("blank")
    /\ LoopBody

\* if len(lines) < 3: skipped['empty'] += 1; continue
SkipShortEntry ==
    /\ AtEntry("short")
    /\ LoopBody

\* if 'Your Bookmark' in metadata_line: skipped['bookmarks'] += 1; continue
SkipBookmark ==
    /\ AtEntry("bookmark")
    /\ LoopBody

\* if 'Your Note' in metadata_line: skipped['notes'] += 1; continue
SkipNote ==
    /\ AtEntry("note")
    /\ LoopBody

\* the rest of the loop body: if highlight_text: highlights.append(highlight_data)
TakeHighlight ==
    /\ (AtEntry("highlight") \/ AtEntry("dropped"))
    /\ LoopBody

\* return highlights, skipped
ReturnParsed ==
    /\ pc = "loop"
    /\ idx > Len(entries)
    /\ pc' = "parsed"
    /\ UNCHANGED <<content, entries, idx, highlights, skipped, notParse>>

----------------------------------------------------------------------------
(* deduplicate_highlights.                                                 *)

\* the 100 of h['text'][:100]
SIGNATURE_LENGTH == 100

\* text[:n]
Prefix(text, n) == Slice(text, 1, IF Len(text) < n THEN Len(text) ELSE n)

\* sig = (h['title'], h['text'][:100]), of a record of `existing`
ExistingSignature(h) == <<h.title, Prefix(h.text, SIGNATURE_LENGTH)>>

\* sig = (h['title'], h['text']), the whole text
NewSignatureWholeText(h) == <<h.title, h.text>>

\* sig = (h['title'], h['text'][:100]), of an item of `new`
NewSignature(h) == <<h.title, Prefix(h.text, SIGNATURE_LENGTH)>>

\* existing_signatures, after the first loop
ExistingSignatures(store) == {ExistingSignature(store[i]) : i \in 1..Len(store)}

\* h['added_at'] = now: the key is set, or overwritten
Stamp(h, now) ==
    [k \in DOMAIN h \cup {"added_at"} |-> IF k = "added_at" THEN now ELSE h[k]]

\* merged = []
StartEmpty(store) == <<>>

\* merged = existing.copy()
StartMerged(store) == store

\* if sig not in existing_signatures, always taken
IsNewAlways(sig, sigs) == TRUE

\* if sig not in existing_signatures
IsNew(sig, sigs) == sig \notin sigs

\* the values datetime.now() returns when it is read n times, the clock at t
\* at the first reading: the clock advances by at most MaxTicks meanwhile, and
\* no reading is earlier than the one before it
ClockReadings(t, n) ==
    {r \in [1..n -> t..(t + MaxTicks)] : \A i \in 1..(n - 1) : r[i] <= r[i + 1]}

\* the positions of the list that hold the dict object at position k; ids[i]
\* is the first position that holds the object at position i
SameObject(ids, k) == {i \in 1..Len(ids) : ids[i] = ids[k]}

\* a list whose items are objects of their own, as parse_clippings and
\* json.load build it
Fresh(list) == [i \in 1..Len(list) |-> i]

\* the second loop, at position k of the list; st.new is the list `new`
\* itself: h['added_at'] = ... changes the dict object, at every position of
\* the list that holds it. Each accepted item is stamped with a reading of its
\* own: nows[n] is the reading taken for the n-th item accepted
RECURSIVE DedupLoop(_, _, _, _)
DedupLoop(st, k, ids, nows) ==
    IF k > Len(st.new) THEN st
    ELSE LET h == st.new[k]
             sig == NewSignature(h)
             now == nows[st.added + 1]
         IN  IF IsNew(sig, st.sigs)
             THEN DedupLoop([merged |-> Append(st.merged, Stamp(h, now)),
                             new    |-> [i \in 1..Len(st.new) |->
                                            IF i \in SameObject(ids, k)
                                            THEN Stamp(h, now) ELSE st.new[i]],
                             sigs   |-> st.sigs \cup {sig},
                             added  |-> st.added + 1],
                            k + 1, ids, nows)
             ELSE DedupLoop(st, k + 1, ids, nows)

\* deduplicate_highlights(store, new), the items of `new` being the objects
\* `ids` and the clock giving the readings `nows`: merged, added, and `new` as
\* the call leaves it
Deduplicate(store, new, ids, nows) ==
    DedupLoop([merged |-> StartMerged(store), new |-> new,
               sigs |-> ExistingSignatures(store), added |-> 0],
              1, ids, nows)

\* the number of times the call reads the clock: once for each item it accepts
ClockReads(store, new) ==
    Deduplicate(store, new, Fresh(new), [i \in 1..Len(new) |-> 0]).added

----------------------------------------------------------------------------
(* The clippings files the parser is run on.                               *)

SeqsUpTo(S, n) == UNION {[1..k -> S] : k \in 0..n}

LINE_TITLE == <<"B", "k", " ", "(", "A", "l", ")">>
LINE_META == <<"p", "a", "g", "e", " ", "4", " ", "L", "o", "c", "a", "t", "i", "o", "n", " ", "8">>
\* a body line that starts with a form feed
LINE_BODY == <<"\f", "h", "i">>

\* the lines an enumerated file is made of; a note is among the whole blocks
FileLines == {<<>>, LINE_TITLE, LINE_META, LINE_BODY, YOUR_BOOKMARK, SEPARATOR}

\* every file of at most MaxLines such lines
LineFiles == {Join(ls, NEWLINE) : ls \in SeqsUpTo(FileLines, MaxLines)}

HIGHLIGHT_META ==
    <<"-", " ", "Y", "o", "u", "r", " ", "H", "i", "g", "h", "l", "i", "g", "h", "t",
      " ", "o", "n", " ", "p", "a", "g", "e", " ", "4", "2", " ", "|", " ",
      "l", "o", "c", "a", "t", "i", "o", "n", " ", "8", "1", "2", "-", "8", "1", "5">>

\* the standard layout: title (author), metadata, blank line, body
BLOCK_STANDARD ==
    Join(<<LINE_TITLE, HIGHLIGHT_META, <<>>, <<"F", "o", "c", "u", "s", ".", " ">> >>, NEWLINE)
\* the legacy layout: two body lines right after the metadata, no author
BLOCK_LEGACY ==
    Join(<<<<"Z", "q">>, <<"l", "o", "c", "a", "t", "i", "o", "n", " ", "7">>,
           <<" ", "o", "n", "e">>, <<"t", "w", "o">> >>, NEWLINE)
\* a bookmark as the device writes it: no body
BLOCK_BOOKMARK ==
    Join(<<LINE_TITLE, <<"-", " ">> \o YOUR_BOOKMARK \o <<" ", "o", "n", " ", "p", "a", "g", "e", " ", "2">>,
           <<>>, <<>> >>, NEWLINE)
\* a note, with its body
BLOCK_NOTE ==
    Join(<<LINE_TITLE, <<"-", " ">> \o YOUR_NOTE, <<>>, <<"m", "i", "n", "e">> >>, NEWLINE)
\* a title with a byte-order mark and a parenthesis inside it; whitespace,
\* digits and letters from outside ASCII in the title and metadata lines
BLOCK_BOM ==
    Join(<<<<BOM, "Z", "q", " ", "(", "X", ")", " ", "e", "d", " ", "(", " ", "A", "l", ")", "<U+3000>">>,
           <<"P", "A", "G", "E", "<U+00A0>", " ", "<U+0669>", " ",
             "l", "o", "c", "a", "t", "<U+0131>", "o", "n", "<U+2003>", "7", "-", "<U+FF18>">>,
           <<>>, <<"h", "i">>, <<>>, <<"y", "o">> >>, NEWLINE)

FileBlocks == {BLOCK_STANDARD, BLOCK_LEGACY, BLOCK_BOOKMARK, BLOCK_NOTE, BLOCK_BOM}

\* block, newline, separator, newline, for each block
RECURSIVE Assemble(_)
Assemble(blocks) ==
    IF blocks = <<>> THEN <<>>
    ELSE Head(blocks) \o NEWLINE \o SEPARATOR \o NEWLINE \o Assemble(Tail(blocks))

\* every file of at most MaxBlocks whole blocks
BlockFiles == {Assemble(bs) : bs \in SeqsUpTo(FileBlocks, MaxBlocks)}

Contents == LineFiles \cup BlockFiles

----------------------------------------------------------------------------
(* The bytes json.dump(list, f, indent=2, ensure_ascii=False) writes to a  *)
(* file opened with encoding utf-8.                                        *)

\* the characters written as a backslash and one character
JsonShortEscapes == {"\"", "\\", "\n", "\r", "\t", "\f", "<U+0008>"}

\* the other control characters, written as \u00XX
JsonLongEscapes ==
    {"<U+0000>", "<U+0001>", "<U+0002>", "<U+0003>", "<U+0004>", "<U+0005>",
     "<U+0006>", "<U+0007>", "<U+000B>", "<U+000E>", "<U+000F>", "<U+0010>",
     "<U+0011>", "<U+0012>", "<U+0013>", "<U+0014>", "<U+0015>", "<U+0016>",
     "<U+0017>", "<U+0018>", "<U+0019>", "<U+001A>", "<U+001B>", "<U+001C>",
     "<U+001D>", "<U+001E>", "<U+001F>"}

\* the characters of the model that take two bytes in UTF-8
Utf8Two ==
    {"<U+0085>", "<U+00A0>", "<U+0130>", "<U+0131>", "<U+017F>", "<U+0660>",
     "<U+0661>", "<U+0662>", "<U+0663>", "<U+0664>", "<U+0665>", "<U+0666>",
     "<U+0667>", "<U+0668>", "<U+0669>", "<U+06F0>", "<U+06F1>", "<U+06F2>",
     "<U+06F3>", "<U+06F4>", "<U+06F5>", "<U+06F6>", "<U+06F7>", "<U+06F8>",
     "<U+06F9>", "<U+07C0>", "<U+07C1>", "<U+07C2>", "<U+07C3>", "<U+07C4>",
     "<U+07C5>", "<U+07C6>", "<U+07C7>", "<U+07C8>", "<U+07C9>"}

\* the characters of the model that take three bytes in UTF-8
Utf8Three ==
    {"<U+0966>", "<U+0967>", "<U+0968>", "<U+0969>", "<U+096A>", "<U+096B>",
     "<U+096C>", "<U+096D>", "<U+096E>", "<U+096F>", "<U+09E6>", "<U+09E7>",
     "<U+09E8>", "<U+09E9>", "<U+09EA>", "<U+09EB>", "<U+09EC>", "<U+09ED>",
     "<U+09EE>", "<U+09EF>", "<U+0A66>", "<U+0A67>", "<U+0A68>", "<U+0A69>",
     "<U+0A6A>", "<U+0A6B>", "<U+0A6C>", "<U+0A6D>", "<U+0A6E>", "<U+0A6F>",
     "<U+0AE6>", "<U+0AE7>", "<U+0AE8>", "<U+0AE9>", "<U+0AEA>", "<U+0AEB>",
     "<U+0AEC>", "<U+0AED>", "<U+0AEE>", "<U+0AEF>", "<U+0B66>", "<U+0B67>",
     "<U+0B68>", "<U+0B69>", "<U+0B6A>", "<U+0B6B>", "<U+0B6C>", "<U+0B6D>",
     "<U+0B6E>", "<U+0B6F>", "<U+0BE6>", "<U+0BE7>", "<U+0BE8>", "<U+0BE9>",
     "<U+0BEA>", "<U+0BEB>", "<U+0BEC>", "<U+0BED>", "<U+0BEE>", "<U+0BEF>",
     "<U+0C66>", "<U+0C67>", "<U+0C68>", "<U+0C69>", "<U+0C6A>", "<U+0C6B>",
     "<U+0C6C>", "<U+0C6D>", "<U+0C6E>", "<U+0C6F>", "<U+0CE6>", "<U+0CE7>",
     "<U+0CE8>", "<U+0CE9>", "<U+0CEA>", "<U+0CEB>", "<U+0CEC>", "<U+0CED>",
     "<U+0CEE>", "<U+0CEF>", "<U+0D66>", "<U+0D67>", "<U+0D68>", "<U+0D69>",
     "<U+0D6A>", "<U+0D6B>", "<U+0D6C>", "<U+0D6D>", "<U+0D6E>", "<U+0D6F>",
     "<U+0DE6>", "<U+0DE7>", "<U+0DE8>", "<U+0DE9>", "<U+0DEA>", "<U+0DEB>",
     "<U+0DEC>", "<U+0DED>", "<U+0DEE>", "<U+0DEF>", "<U+0E50>", "<U+0E51>",
     "<U+0E52>", "<U+0E53>", "<U+0E54>", "<U+0E55>", "<U+0E56>", "<U+0E57>",
     "<U+0E58>", "<U+0E59>", "<U+0ED0>", "<U+0ED1>", "<U+0ED2>", "<U+0ED3>",
     "<U+0ED4>", "<U+0ED5>", "<U+0ED6>", "<U+0ED7>", "<U+0ED8>", "<U+0ED9>",
     "<U+0F20>", "<U+0F21>", "<U+0F22>", "<U+0F23>", "<U+0F24>", "<U+0F25>",
     "<U+0F26>", "<U+0F27>", "<U+0F28>", "<U+0F29>", "<U+1040>", "<U+1041>",
     "<U+1042>", "<U+1043>", "<U+1044>", "<U+1045>", "<U+1046>", "<U+1047>",
     "<U+1048>", "<U+1049>", "<U+1090>", "<U+1091>", "<U+1092>", "<U+1093>",
     "<U+1094>", "<U+1095>", "<U+1096>", "<U+1097>", "<U+1098>", "<U+1099>",
     "<U+1680>", "<U+17E0>", "<U+17E1>", "<U+17E2>", "<U+17E3>", "<U+17E4>",
     "<U+17E5>", "<U+17E6>", "<U+17E7>", "<U+17E8>", "<U+17E9>", "<U+1810>",
     "<U+1811>", "<U+1812>", "<U+1813>", "<U+1814>", "<U+1815>", "<U+1816>",
     "<U+1817>", "<U+1818>", "<U+1819>", "<U+1946>", "<U+1947>", "<U+1948>",
     "<U+1949>", "<U+194A>", "<U+194B>", "<U+194C>", "<U+194D>", "<U+194E>",
     "<U+194F>", "<U+19D0>", "<U+19D1>", "<U+19D2>", "<U+19D3>", "<U+19D4>",
     "<U+19D5>", "<U+19D6>", "<U+19D7>", "<U+19D8>", "<U+19D9>", "<U+1A80>",
     "<U+1A81>", "<U+1A82>", "<U+1A83>", "<U+1A84>", "<U+1A85>", "<U+1A86>",
     "<U+1A87>", "<U+1A88>", "<U+1A89>", "<U+1A90>", "<U+1A91>", "<U+1A92>",
     "<U+1A93>", "<U+1A94>", "<U+1A95>", "<U+1A96>", "<U+1A97>", "<U+1A98>",
     "<U+1A99>", "<U+1B50>", "<U+1B51>", "<U+1B52>", "<U+1B53>", "<U+1B54>",
     "<U+1B55>", "<U+1B56>", "<U+1B57>", "<U+1B58>", "<U+1B59>", "<U+1BB0>",
     "<U+1BB1>", "<U+1BB2>", "<U+1BB3>", "<U+1BB4>", "<U+1BB5>", "<U+1BB6>",
     "<U+1BB7>", "<U+1BB8>", "<U+1BB9>", "<U+1C40>", "<U+1C41>", "<U+1C42>",
     "<U+1C43>", "<U+1C44>", "<U+1C45>", "<U+1C46>", "<U+1C47>", "<U+1C48>",
     "<U+1C49>", "<U+1C50>", "<U+1C51>", "<U+1C52>", "<U+1C53>", "<U+1C54>",
     "<U+1C55>", "<U+1C56>", "<U+1C57>", "<U+1C58>", "<U+1C59>", "<U+2000>",
     "<U+2001>", "<U+2002>", "<U+2003>", "<U+2004>", "<U+2005>", "<U+2006>",
     "<U+2007>", "<U+2008>", "<U+2009>", "<U+200A>", "<U+2028>", "<U+2029>",
     "<U+202F>", "<U+205F>", "<U+212A>", "<U+3000>", "<U+A620>", "<U+A621>",
     "<U+A622>", "<U+A623>", "<U+A624>", "<U+A625>", "<U+A626>", "<U+A627>",
     "<U+A628>", "<U+A629>", "<U+A8D0>", "<U+A8D1>", "<U+A8D2>", "<U+A8D3>",
     "<U+A8D4>", "<U+A8D5>", "<U+A8D6>", "<U+A8D7>", "<U+A8D8>", "<U+A8D9>",
     "<U+A900>", "<U+A901>", "<U+A902>", "<U+A903>", "<U+A904>", "<U+A905>",
     "<U+A906>", "<U+A907>", "<U+A908>", "<U+A909>", "<U+A9D0>", "<U+A9D1>",
     "<U+A9D2>", "<U+A9D3>", "<U+A9D4>", "<U+A9D5>", "<U+A9D6>", "<U+A9D7>",
     "<U+A9D8>", "<U+A9D9>", "<U+A9F0>", "<U+A9F1>", "<U+A9F2>", "<U+A9F3>",
     "<U+A9F4>", "<U+A9F5>", "<U+A9F6>", "<U+A9F7>", "<U+A9F8>", "<U+A9F9>",
     "<U+AA50>", "<U+AA51>", "<U+AA52>", "<U+AA53>", "<U+AA54>", "<U+AA55>",
     "<U+AA56>", "<U+AA57>", "<U+AA58>", "<U+AA59>", "<U+ABF0>", "<U+ABF1>",
     "<U+ABF2>", "<U+ABF3>", "<U+ABF4>", "<U+ABF5>", "<U+ABF6>", "<U+ABF7>",
     "<U+ABF8>", "<U+ABF9>", "<U+FEFF>", "<U+FF10>", "<U+FF11>", "<U+FF12>",
     "<U+FF13>", "<U+FF14>", "<U+FF15>", "<U+FF16>", "<U+FF17>", "<U+FF18>",
     "<U+FF19>"}

\* the characters of the model that take four bytes in UTF-8
Utf8Four ==
    {"<U+104A0>", "<U+104A1>", "<U+104A2>", "<U+104A3>", "<U+104A4>",
     "<U+104A5>", "<U+104A6>", "<U+104A7>", "<U+104A8>", "<U+104A9>",
     "<U+10D30>", "<U+10D31>", "<U+10D32>", "<U+10D33>", "<U+10D34>",
     "<U+10D35>", "<U+10D36>", "<U+10D37>", "<U+10D38>", "<U+10D39>",
     "<U+11066>", "<U+11067>", "<U+11068>", "<U+11069>", "<U+1106A>",
     "<U+1106B>", "<U+1106C>", "<U+1106D>", "<U+1106E>", "<U+1106F>",
     "<U+110F0>", "<U+110F1>", "<U+110F2>", "<U+110F3>", "<U+110F4>",
     "<U+110F5>", "<U+110F6>", "<U+110F7>", "<U+110F8>", "<U+110F9>",
     "<U+11136>", "<U+11137>", "<U+11138>", "<U+11139>", "<U+1113A>",
     "<U+1113B>", "<U+1113C>", "<U+1113D>", "<U+1113E>", "<U+1113F>",
     "<U+111D0>", "<U+111D1>", "<U+111D2>", "<U+111D3>", "<U+111D4>",
     "<U+111D5>", "<U+111D6>", "<U+111D7>", "<U+111D8>", "<U+111D9>",
     "<U+112F0>", "<U+112F1>", "<U+112F2>", "<U+112F3>", "<U+112F4>",
     "<U+112F5>", "<U+112F6>", "<U+112F7>", "<U+112F8>", "<U+112F9>",
     "<U+11450>", "<U+11451>", "<U+11452>", "<U+11453>", "<U+11454>",
     "<U+11455>", "<U+11456>", "<U+11457>", "<U+11458>", "<U+11459>",
     "<U+114D0>", "<U+114D1>", "<U+114D2>", "<U+114D3>", "<U+114D4>",
     "<U+114D5>", "<U+114D6>", "<U+114D7>", "<U+114D8>", "<U+114D9>",
     "<U+11650>", "<U+11651>", "<U+11652>", "<U+11653>", "<U+11654>",
     "<U+11655>", "<U+11656>", "<U+11657>", "<U+11658>", "<U+11659>",
     "<U+116C0>", "<U+116C1>", "<U+116C2>", "<U+116C3>", "<U+116C4>",
     "<U+116C5>", "<U+116C6>", "<U+116C7>", "<U+116C8>", "<U+116C9>",
     "<U+11730>", "<U+11731>", "<U+11732>", "<U+11733>", "<U+11734>",
     "<U+11735>", "<U+11736>", "<U+11737>", "<U+11738>", "<U+11739>",
     "<U+118E0>", "<U+118E1>", "<U+118E2>", "<U+118E3>", "<U+118E4>",
     "<U+118E5>", "<U+118E6>", "<U+118E7>", "<U+118E8>", "<U+118E9>",
     "<U+11950>", "<U+11951>", "<U+11952>", "<U+11953>", "<U+11954>",
     "<U+11955>", "<U+11956>", "<U+11957>", "<U+11958>", "<U+11959>",
     "<U+11C50>", "<U+11C51>", "<U+11C52>", "<U+11C53>", "<U+11C54>",
     "<U+11C55>", "<U+11C56>", "<U+11C57>", "<U+11C58>", "<U+11C59>",
     "<U+11D50>", "<U+11D51>", "<U+11D52>", "<U+11D53>", "<U+11D54>",
     "<U+11D55>", "<U+11D56>", "<U+11D57>", "<U+11D58>", "<U+11D59>",
     "<U+11DA0>", "<U+11DA1>", "<U+11DA2>", "<U+11DA3>", "<U+11DA4>",
     "<U+11DA5>", "<U+11DA6>", "<U+11DA7>", "<U+11DA8>", "<U+11DA9>",
     "<U+16A60>", "<U+16A61>", "<U+16A62>", "<U+16A63>", "<U+16A64>",
     "<U+16A65>", "<U+16A66>", "<U+16A67>", "<U+16A68>", "<U+16A69>",
     "<U+16AC0>", "<U+16AC1>", "<U+16AC2>", "<U+16AC3>", "<U+16AC4>",
     "<U+16AC5>", "<U+16AC6>", "<U+16AC7>", "<U+16AC8>", "<U+16AC9>",
     "<U+16B50>", "<U+16B51>", "<U+16B52>", "<U+16B53>", "<U+16B54>",
     "<U+16B55>", "<U+16B56>", "<U+16B57>", "<U+16B58>", "<U+16B59>",
     "<U+1D7CE>", "<U+1D7CF>", "<U+1D7D0>", "<U+1D7D1>", "<U+1D7D2>",
     "<U+1D7D3>", "<U+1D7D4>", "<U+1D7D5>", "<U+1D7D6>", "<U+1D7D7>",
     "<U+1D7D8>", "<U+1D7D9>", "<U+1D7DA>", "<U+1D7DB>", "<U+1D7DC>",
     "<U+1D7DD>", "<U+1D7DE>", "<U+1D7DF>", "<U+1D7E0>", "<U+1D7E1>",
     "<U+1D7E2>", "<U+1D7E3>", "<U+1D7E4>", "<U+1D7E5>", "<U+1D7E6>",
     "<U+1D7E7>", "<U+1D7E8>", "<U+1D7E9>", "<U+1D7EA>", "<U+1D7EB>",
     "<U+1D7EC>", "<U+1D7ED>", "<U+1D7EE>", "<U+1D7EF>", "<U+1D7F0>",
     "<U+1D7F1>", "<U+1D7F2>", "<U+1D7F3>", "<U+1D7F4>", "<U+1D7F5>",
     "<U+1D7F6>", "<U+1D7F7>", "<U+1D7F8>", "<U+1D7F9>", "<U+1D7FA>",
     "<U+1D7FB>", "<U+1D7FC>", "<U+1D7FD>", "<U+1D7FE>", "<U+1D7FF>",
     "<U+1E140>", "<U+1E141>", "<U+1E142>", "<U+1E143>", "<U+1E144>",
     "<U+1E145>", "<U+1E146>", "<U+1E147>", "<U+1E148>", "<U+1E149>",
     "<U+1E2F0>", "<U+1E2F1>", "<U+1E2F2>", "<U+1E2F3>", "<U+1E2F4>",
     "<U+1E2F5>", "<U+1E2F6>", "<U+1E2F7>", "<U+1E2F8>", "<U+1E2F9>",
     "<U+1E950>", "<U+1E951>", "<U+1E952>", "<U+1E953>", "<U+1E954>",
     "<U+1E955>", "<U+1E956>", "<U+1E957>", "<U+1E958>", "<U+1E959>",
     "<U+1FBF0>", "<U+1FBF1>", "<U+1FBF2>", "<U+1FBF3>", "<U+1FBF4>",
     "<U+1FBF5>", "<U+1FBF6>", "<U+1FBF7>", "<U+1FBF8>", "<U+1FBF9>"}

\* the bytes one character of a string takes in the file
CharSize(c) ==
    CASE c \in JsonShortEscapes -> 2
      [] c \in JsonLongEscapes -> 6
      [] c \in Utf8Two -> 2
      [] c \in Utf8Three -> 3
      [] c \in Utf8Four -> 4
      [] OTHER -> 1

\* the bytes of a str value: the quotes and the characters
RECURSIVE StrSize(_)
StrSize(str) == IF str = <<>> THEN 2 ELSE CharSize(Head(str)) + StrSize(Tail(str))

\* the keys a dict holds: location and page are left out when the metadata
\* line has none, added_at and theme until they are set
KeysOf(h) ==
    {k \in DOMAIN h : (k \in {"location", "page"}) => h[k] # <<>>}

\* the bytes of the value of key k; the str datetime.now().isoformat() returns
\* has 26 characters (19 when the microsecond is 0, which no reading of the
\* model is)
ValueSize(h, k) ==
    CASE k = "added_at" -> 26 + 2
      [] k = "theme" -> Len(h[k]) + 2
      [] OTHER -> StrSize(h[k])

\* the sum of f over the set S
RECURSIVE SumOver(_, _)
SumOver(S, f) ==
    IF S = {} THEN 0
    ELSE LET x == CHOOSE y \in S : TRUE IN f[x] + SumOver(S \ {x}, f)

\* one dict: "  {", a line `    "key": value` for each key, commas and newlines
\* between them, "  }"
DictSize(h) ==
    LET keys == KeysOf(h)
    IN  4 + SumOver(keys, [k \in keys |-> 4 + Len(k) + 2 + 2 + ValueSize(h, k)])
          + 2 * (Cardinality(keys) - 1) + 4

\* the list: "[]" when it is empty, else "[", the dicts, "]"
JSONSize(list) ==
    IF list = <<>> THEN 2
    ELSE 2 + SumOver(1..Len(list), [i \in 1..Len(list) |-> DictSize(list[i])])
           + 2 * (Len(list) - 1) + 2

----------------------------------------------------------------------------
(* The persisted store, data/highlights.json: whether json.load decodes    *)
(* it, the list it decodes to, and the bytes the file holds.               *)

\* no file at output_path
NoStore == [state |-> "absent", records |-> <<>>, size |-> 0]
\* a file of `size` bytes json.load cannot decode
Undecodable(size) == [state |-> "corrupt", records |-> <<>>, size |-> size]
\* an undecodable file found before the first run
CorruptStore == Undecodable(1)
\* the file after open(path, 'w'): created, or emptied; json.load cannot
\* decode it
EmptyFile == Undecodable(0)
\* a file holding the JSON list `records`
StoreOf(records) == [state |-> "ok", records |-> records, size |-> JSONSize(records)]

\* json.dump(list, f) by a writer that opened the file with 'w': the bytes go
\* to the start of the file. Whatever another writer has put there since the
\* open stays behind them when it is longer, and the file no longer decodes
WriteOver(d, list) ==
    IF JSONSize(list) >= d.size THEN StoreOf(list) ELSE Undecodable(d.size)

----------------------------------------------------------------------------
(* The variables a specification leaves alone.                             *)

IdleMerge ==
    /\ existing = <<>> /\ merged = <<>> /\ added = 0
    /\ clock = 0 /\ merges = 0 /\ store0 = <<>> /\ objs = <<>>
IdleSample == pool = <<>> /\ count = 0 /\ book_keys = <<>> /\ selected = <<>>
IdleImport ==
    /\ file_found = TRUE /\ disk = NoStore
    /\ mpc = "idle" /\ mlist = <<>> /\ oruns = 0
    /\ dry_run = FALSE /\ writes = 0 /\ runs = 0
IdleParse ==
    /\ content = <<>> /\ entries = <<>> /\ idx = 0 /\ highlights = <<>>
    /\ skipped = NoneSkipped

----------------------------------------------------------------------------
(* Merges into a store (SpecMerge).                                        *)

\* 100 characters, so that two texts can agree on their first 100 and differ
LONG == [i \in 1..SIGNATURE_LENGTH |-> "a"]

Parsed(title, text, location, page, author) ==
    [title |-> title, author |-> author, text |-> text,
     location |-> location, page |-> page]

\* highlights as parse_clippings returns them (no added_at): a long text; a
\* text with the same first 100 characters, another location and author; the
\* first text in another book
ParsedUniverse ==
    {Parsed(<<"A">>, LONG \o <<"y">>, <<>>, <<>>, <<"X">>),
     Parsed(<<"A">>, LONG \o <<"z">>, <<"5", "-", "5">>, <<"7">>, <<"Y">>),
     Parsed(<<"B">>, LONG \o <<"y">>, <<>>, <<>>, <<"X">>)}

\* the lists one merge is given
NewLists == SeqsUpTo(ParsedUniverse, MaxNew)

\* the ways the positions of a list share dict objects: positions that hold
\* one object hold one value
Aliasings(new) ==
    {ids \in [1..Len(new) -> 1..Len(new)] :
        \A i \in 1..Len(new) :
            ids[i] <= i /\ ids[ids[i]] = ids[i] /\ new[ids[i]] = new[i]}

\* the stores before the first merge: records of an earlier import, stamped 0
InitialStores ==
    {[i \in 1..Len(hs) |-> Stamp(hs[i], 0)] : hs \in SeqsUpTo(ParsedUniverse, MaxExisting)}

notMerge == <<content, entries, idx, skipped,
              pool, count, book_keys, selected, file_found, disk, dry_run, writes, runs,
              mpc, mlist, oruns>>

\* merged, added = deduplicate_highlights(merged, new)
CallDeduplicate(new, ids) ==
    \E nows \in ClockReadings(clock, ClockReads(merged, new)) :
        LET r == Deduplicate(merged, new, ids, nows)
        IN  /\ existing' = merged
            /\ objs' = ids
            /\ merged' = r.merged
            /\ highlights' = r.new
            /\ added' = r.added
            /\ clock' = clock + MaxTicks
            /\ UNCHANGED <<store0, notMerge>>

\* an import of a new file
MergeNew ==
    /\ pc \in {"idle", "merged"}
    /\ merges < MaxMerges
    /\ \E new \in NewLists : \E ids \in Aliasings(new) : CallDeduplicate(new, ids)
    /\ merges' = merges + 1
    /\ pc' = "merged"

\* the same list merged again
MergeAgain ==
    /\ pc = "merged"
    /\ CallDeduplicate(highlights, objs)
    /\ merges' = merges
    /\ pc' = "remerged"

InitMerge ==
    /\ pc = "idle"
    /\ merged \in InitialStores
    /\ store0 = merged
    /\ existing = <<>>
    /\ highlights = <<>>
    /\ added = 0
    /\ clock = 1
    /\ merges = 0
    /\ objs = <<>>
    /\ content = <<>> /\ entries = <<>> /\ idx = 0 /\ skipped = NoneSkipped
    /\ IdleSample /\ IdleImport

NextMerge ==
    \/ MergeNew
    \/ MergeAgain

SpecMerge == InitMerge /\ [][NextMerge]_vars

----------------------------------------------------------------------------
(* get_random_highlights (SpecSample). The pool is the list `highlights`;  *)
(* `selected` holds positions of the pool, one per selected dict object.   *)
(* Every outcome of random.shuffle, random.choice and random.sample is a   *)
(* step of the model.                                                      *)

\* the sequences of the members of S, each once
Shuffles(S) ==
    {f \in [1..Cardinality(S) -> S] : \A i, j \in 1..Cardinality(S) : f[i] = f[j] => i = j}

\* the sequences of k distinct members of S
Samples(S, k) ==
    {f \in [1..k -> S] : \A i, j \in 1..k : f[i] = f[j] => i = j}

\* books.keys()
BookKeys(highlights_) == {highlights_[i].title : i \in 1..Len(highlights_)}

\* books[key], as positions of the pool
Book(highlights_, key) == {i \in 1..Len(highlights_) : highlights_[i].title = key}

\* the keys the first pass visits, had it no break
KeysVisitedNoBreak(keys, n) == keys

\* the keys the first pass visits before `if len(selected) >= count: break`
KeysVisited(keys, n) == SubSeq(keys, 1, IF Len(keys) < n THEN Len(keys) ELSE n)

\* [h for h in highlights if h not in selected]: `in` compares dicts by value
Remaining(highlights_, selected_) ==
    {i \in 1..Len(highlights_) :
        \A j \in 1..Len(selected_) : highlights_[selected_[j]] # highlights_[i]}

notSample == <<content, entries, idx, highlights, skipped,
               existing, merged, added, clock, merges, store0, objs,
               file_found, disk, dry_run, writes, runs, mpc, mlist, oruns>>

\* if len(highlights) <= count: return highlights
ReturnWholePool ==
    /\ pc = "start"
    /\ Len(pool) <= count
    /\ selected' = [i \in 1..Len(pool) |-> i]
    /\ pc' = "done"
    /\ UNCHANGED <<pool, count, book_keys, notSample>>

\* book_keys = list(books.keys()); random.shuffle(book_keys)
ShuffleBookKeys ==
    /\ pc = "start"
    /\ Len(pool) > count
    /\ book_keys' \in Shuffles(BookKeys(pool))
    /\ pc' = "first"
    /\ UNCHANGED <<pool, count, selected, notSample>>

\* first pass: selected.append(random.choice(books[key])) for each key visited
FirstPass ==
    /\ pc = "first"
    /\ LET keys == KeysVisited(book_keys, count)
       IN  \E choice \in [1..Len(keys) -> 1..Len(pool)] :
              /\ \A i \in 1..Len(keys) : choice[i] \in Book(pool, keys[i])
              /\ selected' = choice
    /\ pc' = "fill"
    /\ UNCHANGED <<pool, count, book_keys, notSample>>

\* if len(selected) < count:
\*     selected.extend(random.sample(remaining, min(needed, len(remaining))))
FillFromRemaining ==
    /\ pc = "fill"
    /\ IF Len(selected) < count
       THEN LET remaining == Remaining(pool, selected)
                needed == count - Len(selected)
                k == IF needed < Cardinality(remaining)
                     THEN needed ELSE Cardinality(remaining)
            IN  \E sample \in Samples(remaining, k) : selected' = selected \o sample
       ELSE selected' = selected
    /\ pc' = "shuffle"
    /\ UNCHANGED <<pool, count, book_keys, notSample>>

\* random.shuffle(selected); return selected
ShuffleSelected ==
    /\ pc = "shuffle"
    /\ \E order \in Shuffles(1..Len(selected)) :
          selected' = [i \in 1..Len(selected) |-> selected[order[i]]]
    /\ pc' = "done"
    /\ UNCHANGED <<pool, count, book_keys, notSample>>

PoolRecord(title, text) == [title |-> title, text |-> text]

\* the records a pool is made of: two of one book, one of each of two others;
\* a pool may hold the same record more than once
PoolUniverse ==
    {PoolRecord("A", "x"), PoolRecord("A", "y"), PoolRecord("B", "x"), PoolRecord("C", "x")}

InitSample ==
    /\ pc = "start"
    /\ pool \in SeqsUpTo(PoolUniverse, MaxPool)
    /\ count \in 0..MaxCount
    /\ book_keys = <<>>
    /\ selected = <<>>
    /\ IdleParse /\ IdleMerge /\ IdleImport

NextSample ==
    \/ ReturnWholePool
    \/ ShuffleBookKeys
    \/ FirstPass
    \/ FillFromRemaining
    \/ ShuffleSelected

SpecSample == InitSample /\ [][NextSample]_vars

----------------------------------------------------------------------------
(* import_clippings.main: import runs against the persisted store, and     *)
(* beside them the other writers of the store, migrate_themes.main and     *)
(* main.save_highlights, as a process of their own (SpecImport).           *)

\* a second highlight of the book of BLOCK_STANDARD, its body right after the
\* metadata line
BLOCK_SECOND ==
    Join(<<LINE_TITLE, <<"l", "o", "c", "a", "t", "i", "o", "n", " ", "9">>, <<"y", "o">> >>, NEWLINE)

\* the clippings files of the import runs: two highlights of one book, the
\* first of them in the store of an earlier import (InitialDisks); a bookmark
\* only
ImportFiles ==
    {Assemble(<<BLOCK_STANDARD, BLOCK_SECOND>>),
     Assemble(<<BLOCK_BOOKMARK>>)}

\* what is at output_path before the first run: nothing, an undecodable file,
\* or the store an import of the first highlight alone wrote
InitialDisks ==
    {NoStore, CorruptStore,
     StoreOf(Deduplicate(<<>>, ParseClippings(Assemble(<<BLOCK_STANDARD>>)).highlights, <<1>>, <<0>>).merged)}

notImport == <<entries, idx, pool, count, book_keys, selected, merges, store0, objs,
               mpc, mlist, oruns>>

\* if not os.path.exists(args.clippings_file): sys.exit(1)
FileNotFound ==
    /\ pc = "main"
    /\ ~file_found
    /\ pc' = "exit"
    /\ UNCHANGED <<content, highlights, skipped, existing, merged, added, clock,
                   file_found, disk, dry_run, writes, runs, notImport>>

\* highlights, skipped = parse_clippings(args.clippings_file)
ParseFile ==
    /\ pc = "main"
    /\ file_found
    /\ highlights' = ParseClippings(content).highlights
    /\ skipped' = ParseClippings(content).skipped
    /\ pc' = "parsed"
    /\ UNCHANGED <<content, existing, merged, added, clock,
                   file_found, disk, dry_run, writes, runs, notImport>>

\* if not highlights: sys.exit(1)
NoHighlights ==
    /\ pc = "parsed"
    /\ highlights = <<>>
    /\ pc' = "exit"
    /\ UNCHANGED <<content, highlights, skipped, existing, merged, added, clock,
                   file_found, disk, dry_run, writes, runs, notImport>>

\* if args.dry_run: return
DryRunReturn ==
    /\ pc = "parsed"
    /\ highlights # <<>>
    /\ dry_run
    /\ pc' = "returned"
    /\ UNCHANGED <<content, highlights, skipped, existing, merged, added, clock,
                   file_found, disk, dry_run, writes, runs, notImport>>

\* a load that takes a file it cannot decode for an empty store
LoadOrEmpty(d) ==
    [raised |-> FALSE, records |-> IF d.state = "ok" THEN d.records ELSE <<>>]

\* existing = []; if output_path.exists(): existing = json.load(f)
\* json.load raises on a file it cannot decode
Load(d) ==
    IF d.state = "corrupt"
    THEN [raised |-> TRUE, records |-> <<>>]
    ELSE [raised |-> FALSE, records |-> d.records]

\* the load of the persisted store; an exception of json.load ends the run
LoadExisting ==
    /\ pc = "parsed"
    /\ highlights # <<>>
    /\ ~dry_run
    /\ existing' = Load(disk).records
    /\ pc' = IF Load(disk).raised THEN "raised" ELSE "loaded"
    /\ UNCHANGED <<content, highlights, skipped, merged, added, clock,
                   file_found, disk, dry_run, writes, runs, notImport>>

\* merged, added = deduplicate_highlights(existing, highlights)
MergeLoaded ==
    /\ pc = "loaded"
    /\ \E nows \in ClockReadings(clock, ClockReads(existing, highlights)) :
          LET r == Deduplicate(existing, highlights, Fresh(highlights), nows)
          IN  /\ merged' = r.merged
              /\ added' = r.added
              /\ highlights' = r.new
    /\ pc' = "merged"
    /\ UNCHANGED <<content, skipped, existing, clock,
                   file_found, disk, dry_run, writes, runs, notImport>>

\* with open(output_path, 'w') as f: the file is created, or emptied
OpenStoreForWrite ==
    /\ pc = "merged"
    /\ disk' = EmptyFile
    /\ pc' = "opened"
    /\ UNCHANGED <<content, highlights, skipped, existing, merged, added, clock,
                   file_found, dry_run, writes, runs, notImport>>

\* json.dump(merged, f, ...) and the close of f: the bytes go to the start of
\* the file as it is now
SaveMerged ==
    /\ pc = "opened"
    /\ disk' = WriteOver(disk, merged)
    /\ writes' = writes + 1
    /\ pc' = "saved"
    /\ UNCHANGED <<content, highlights, skipped, existing, merged, added, clock,
                   file_found, dry_run, runs, notImport>>

\* the values of classify_book: classifier.THEMES, and "General"
Themes ==
    {"Philosophy", "Psychology", "Finance & Investing", "Software Engineering",
     "Productivity", "History", "Science", "Business", "Fiction", "Biography",
     "General"}

\* books, before the classification: the (title, author) of the records
\* without a theme
BooksWithoutTheme(records) ==
    {<<records[i].title, records[i].author>> :
        i \in {j \in 1..Len(records) : "theme" \notin DOMAIN records[j]}}

\* h['theme'] = theme
WithTheme(h, theme) ==
    [k \in DOMAIN h \cup {"theme"} |-> IF k = "theme" THEN theme ELSE h[k]]

\* for h in highlights: if 'theme' not in h: h['theme'] = books[...]
ApplyThemes(records, books) ==
    [i \in 1..Len(records) |->
        IF "theme" \in DOMAIN records[i] THEN records[i]
        ELSE WithTheme(records[i], books[<<records[i].title, records[i].author>>])]

\* the ways a run of import_clippings.main ends
Ended == {"exit", "raised", "returned", "saved"}

\* what a step of another process than the import run leaves alone
notWriter == <<pc, content, highlights, skipped, existing, merged, added, clock,
               file_found, dry_run, writes, runs,
               entries, idx, pool, count, book_keys, selected, merges, store0, objs>>

\* migrate_themes.main, a process of its own beside the import runs: the
\* store is read. The script goes on when the file is there, json.load decodes
\* it, and it holds a record without a theme; else it ends, the store as it is
MigrateLoad ==
    /\ mpc = "idle"
    /\ oruns < MaxOtherRuns
    /\ disk.state = "ok"
    /\ disk.records # <<>>
    /\ BooksWithoutTheme(disk.records) # {}
    /\ mlist' = disk.records
    /\ mpc' = "loaded"
    /\ oruns' = oruns + 1
    /\ UNCHANGED <<disk, notWriter>>

\* classify_book for each book, then h['theme'] = ... for each record without
\* a theme
MigrateClassify ==
    /\ mpc = "loaded"
    /\ \E books \in [BooksWithoutTheme(mlist) -> Themes] :
          mlist' = ApplyThemes(mlist, books)
    /\ mpc' = "themed"
    /\ UNCHANGED <<disk, oruns, notWriter>>

\* with open(data_path, 'w') as f: the file is emptied
MigrateOpen ==
    /\ mpc = "themed"
    /\ disk' = EmptyFile
    /\ mpc' = "opened"
    /\ UNCHANGED <<mlist, oruns, notWriter>>

\* json.dump(highlights, f, ...) and the close of f: the bytes go to the start
\* of the file as it is now
MigrateDump ==
    /\ mpc = "opened"
    /\ disk' = WriteOver(disk, mlist)
    /\ mlist' = <<>>
    /\ mpc' = "idle"
    /\ UNCHANGED <<oruns, notWriter>>

\* a record of an earlier import
EarlierRecord ==
    [title |-> <<"B", "k">>, author |-> <<"A", "l">>, text |-> <<"h", "i">>,
     location |-> <<>>, page |-> <<>>, added_at |-> 0]

\* the lists save_highlights is given: none, or one longer than the list an
\* import run of the model writes
SavedLists == {<<>>, <<EarlierRecord, EarlierRecord, EarlierRecord, EarlierRecord>>}

\* main.save_highlights(highlights, data_path), beside the import runs:
\* with open(data_path, 'w', ...) as f: the file is created, or emptied
SaveHighlightsOpen ==
    /\ mpc = "idle"
    /\ oruns < MaxOtherRuns
    /\ mlist' \in SavedLists
    /\ disk' = EmptyFile
    /\ mpc' = "saving"
    /\ oruns' = oruns + 1
    /\ UNCHANGED notWriter

\* json.dump(highlights, f, ...) and the close of f: the bytes go to the start
\* of the file as it is now
SaveHighlights ==
    /\ mpc = "saving"
    /\ disk' = WriteOver(disk, mlist)
    /\ mlist' = <<>>
    /\ mpc' = "idle"
    /\ UNCHANGED <<oruns, notWriter>>

\* the next run of the script, on some file
StartRun ==
    /\ pc \in Ended
    /\ runs < MaxRuns
    /\ runs' = runs + 1
    /\ file_found' \in BOOLEAN
    /\ content' \in (IF file_found' THEN ImportFiles ELSE {<<>>})
    /\ dry_run' \in BOOLEAN
    /\ writes' = 0
    /\ clock' = clock + MaxTicks
    /\ highlights' = <<>> /\ skipped' = NoneSkipped
    /\ existing' = <<>> /\ merged' = <<>> /\ added' = 0
    /\ pc' = "main"
    /\ UNCHANGED <<disk, notImport>>

InitImport ==
    /\ pc = "main"
    /\ runs = 1
    /\ file_found \in BOOLEAN
    /\ content \in (IF file_found THEN ImportFiles ELSE {<<>>})
    /\ dry_run \in BOOLEAN
    /\ disk \in InitialDisks
    /\ writes = 0
    /\ clock = 1
    /\ highlights = <<>> /\ skipped = NoneSkipped
    /\ existing = <<>> /\ merged = <<>> /\ added = 0
    /\ entries = <<>> /\ idx = 0 /\ merges = 0 /\ store0 = <<>> /\ objs = <<>>
    /\ mpc = "idle" /\ mlist = <<>> /\ oruns = 0
    /\ IdleSample

NextImport ==
    \/ FileNotFound
    \/ ParseFile
    \/ NoHighlights
    \/ DryRunReturn
    \/ LoadExisting
    \/ MergeLoaded
    \/ OpenStoreForWrite
    \/ SaveMerged
    \/ StartRun
    \/ MigrateLoad
    \/ MigrateClassify
    \/ MigrateOpen
    \/ MigrateDump
    \/ SaveHighlightsOpen
    \/ SaveHighlights

SpecImport == InitImport /\ [][NextImport]_vars

----------------------------------------------------------------------------
(* One import run with parse_clippings taken entry by entry (SpecParse).   *)

\* what is at output_path before the run: nothing, or the store of an
\* earlier import
ParseDisks == {NoStore, StoreOf(<<EarlierRecord>>)}

InitParse ==
    /\ pc = "read"
    /\ content \in Contents
    /\ entries = <<>>
    /\ idx = 0
    /\ highlights = <<>>
    /\ skipped = NoneSkipped
    /\ file_found = TRUE
    /\ dry_run = FALSE
    /\ disk \in ParseDisks
    /\ writes = 0
    /\ runs = 1
    /\ existing = <<>> /\ merged = <<>> /\ added = 0
    /\ clock = 1 /\ merges = 0 /\ store0 = <<>> /\ objs = <<>>
    /\ mpc = "idle" /\ mlist = <<>> /\ oruns = 0
    /\ IdleSample

NextParse ==
    \/ SplitEntries
    \/ SkipBlankEntry
    \/ SkipShortEntry
    \/ SkipBookmark
    \/ SkipNote
    \/ TakeHighlight
    \/ ReturnParsed
    \/ NoHighlights
    \/ LoadExisting
    \/ MergeLoaded
    \/ OpenStoreForWrite
    \/ SaveMerged

SpecParse == InitParse /\ [][NextParse]_vars

----------------------------------------------------------------------------
(* Claims about the parser (SpecParse).                                    *)

\* the entries the loop has been through
Processed == SubSeq(entries, 1, idx - 1)

SkippedTotal == skipped.bookmarks + skipped.notes + skipped.empty

\* a block of at least 3 lines that is neither a bookmark nor a note
IsCandidate(entry) ==
    /\ Strip(entry) # <<>>
    /\ Len(EntryLines(entry)) >= 3
    /\ ~Contains(EntryLines(entry)[2], YOUR_BOOKMARK)
    /\ ~Contains(EntryLines(entry)[2], YOUR_NOTE)

\* a block whose second line holds the bookmark marker and that has no body
IsBodylessBookmark(entry) ==
    /\ Len(EntryLines(entry)) >= 2
    /\ Contains(EntryLines(entry)[2], YOUR_BOOKMARK)
    /\ \A i \in 3..Len(EntryLines(entry)) : Strip(EntryLines(entry)[i]) = <<>>

\* the non-blank lines after the metadata line, each trimmed, joined by newlines
TextAfterMetadata(entry) ==
    LET rest == Slice(EntryLines(entry), 3, Len(EntryLines(entry)))
        kept == SelectSeq(rest, LAMBDA line : Strip(line) # <<>>)
    IN  Join([i \in 1..Len(kept) |-> Strip(kept[i])], NEWLINE)

\* C6 (as claimed): every block whose second line contains 'Your Bookmark' and
\* that has no body is counted under skipped['bookmarks'], not under
\* skipped['empty'] (and yields no highlight).
C6_BodylessBookmarkCountedAsBookmark ==
    pc \in {"loop", "parsed"} =>
        LET n == Cardinality({i \in 1..(idx - 1) : IsBodylessBookmark(entries[i])})
        IN  /\ skipped.bookmarks >= n
            /\ skipped.empty <= (idx - 1) - n

\* C9 (as claimed): the text of every accepted block is the newline-join, in
\* document order, of all the non-blank lines that follow the metadata line,
\* each trimmed; with or without a blank line after the metadata.
C9_TextIsAllLinesAfterMetadata ==
    pc \in {"loop", "parsed"} =>
        LET accepted == SelectSeq(Processed, IsCandidate)
        IN  [i \in 1..Len(highlights) |-> highlights[i].text]
              = [i \in 1..Len(accepted) |-> TextAfterMetadata(accepted[i])]

\* C10: every segment of the split is accounted for exactly once, as a
\* highlight or under one of the three counters; every block of at least 3
\* lines that is neither a bookmark nor a note becomes a highlight, and the
\* highlights are in document order.
C10_EveryEntryAccounted ==
    pc \in {"loop", "parsed"} =>
        LET accepted == SelectSeq(Processed, IsCandidate)
        IN  /\ Len(highlights) + SkippedTotal = idx - 1
            /\ [i \in 1..Len(highlights) |-> highlights[i].title]
                 = [i \in 1..Len(accepted) |-> Title(TitleLine(EntryLines(accepted[i])))]
            /\ pc = "parsed" =>
                 Len(Split(content, SEPARATOR)) = Len(highlights) + SkippedTotal

\* two highlights of different books and a skipped segment, all counted
C10_Witness ==
    /\ pc = "parsed"
    /\ Len(highlights) = 2
    /\ highlights[1].title # highlights[2].title
    /\ skipped.empty >= 1
    /\ idx - 1 = 3

\* C8: every highlight parse_clippings returns has a text that is not empty
\* and has no whitespace at either end; merged into a store whose records have
\* non-empty texts, it leaves a store whose records all have non-empty texts.
C8_TextNeverEmpty ==
    /\ pc \in {"loop", "parsed"} =>
         \A i \in 1..Len(highlights) :
            highlights[i].text # <<>> /\ Strip(highlights[i].text) = highlights[i].text
    /\ pc \in {"merged", "opened", "saved"} =>
         \A i \in 1..Len(merged) :
            merged[i].text # <<>> /\ Strip(merged[i].text) = merged[i].text
    /\ pc = "saved" =>
         \A i \in 1..Len(disk.records) :
            disk.records[i].text # <<>>

\* a highlight whose body line starts with a form feed, saved behind a record
\* of an earlier import
C8_Witness ==
    /\ pc = "saved"
    /\ Len(existing) = 1
    /\ added = 1
    /\ Contains(content, LINE_BODY)
    /\ disk.records[2].text = <<"h", "i">>

----------------------------------------------------------------------------
(* Claims about the merge (SpecMerge).                                     *)

IsPrefixOf(a, b) == Len(a) <= Len(b) /\ SubSeq(b, 1, Len(a)) = a

\* the signature as the specification defines it: title and first 100 characters
SignatureOf(h) == <<h.title, Prefix(h.text, SIGNATURE_LENGTH)>>

\* the records of `store` with signature `sig`
WithSignature(store, sig) == {i \in 1..Len(store) : SignatureOf(store[i]) = sig}

DistinctSignatures(store) ==
    \A i, j \in 1..Len(store) : SignatureOf(store[i]) = SignatureOf(store[j]) => i = j

\* the positions of `new` a merge into `store` accepts: the signature is not
\* in the store and not at an earlier position of `new`
AcceptedPositions(store, new) ==
    {i \in 1..Len(new) :
        /\ WithSignature(store, SignatureOf(new[i])) = {}
        /\ \A j \in 1..(i - 1) : SignatureOf(new[j]) # SignatureOf(new[i])}

\* the items at the positions of P, in order
RECURSIVE Pick(_, _)
Pick(seq, P) ==
    IF P = {} THEN <<>>
    ELSE <<seq[SetMin(P)]>> \o Pick(seq, P \ {SetMin(P)})

\* C1: merging the same list a second time adds nothing and leaves the store
\* as the first merge left it, added_at included.
C1_MergeIdempotent ==
    pc = "remerged" => added = 0 /\ merged = existing

\* a second merge of a list with a repeated entry, into a store that held one
\* of its items before the first merge
C1_Witness ==
    /\ pc = "remerged"
    /\ Len(highlights) = 2
    /\ SignatureOf(highlights[1]) = SignatureOf(highlights[2])
    /\ Len(store0) = 1
    /\ Len(existing) > Len(store0)

\* C2: a merge returns the store it was given, unchanged, followed by the
\* accepted items of the list in their order; the count is the growth; the
\* store before the first merge is a prefix of every later store.
C2_AppendOnly ==
    pc \in {"merged", "remerged"} =>
        /\ IsPrefixOf(existing, merged)
        /\ IsPrefixOf(store0, existing)
        /\ added = Len(merged) - Len(existing)
        /\ SubSeq(merged, Len(existing) + 1, Len(merged))
             = Pick(highlights, AcceptedPositions(existing, highlights))

\* a merge that accepted the second item of its list and skipped the first
C2_Witness ==
    /\ pc = "merged"
    /\ Len(existing) = 1
    /\ Len(highlights) = 2
    /\ added = 1
    /\ merged[2] = highlights[2]
    /\ merged[1].added_at # merged[2].added_at

\* C3: an item whose signature is in the store, or was accepted earlier in the
\* call, is not appended, whatever its other fields; a store that starts with
\* distinct signatures keeps them distinct.
C3_CollisionDiscardsLater ==
    /\ pc \in {"merged", "remerged"} =>
         \A i \in 1..Len(highlights) :
            LET sig == SignatureOf(highlights[i])
            IN  IF WithSignature(existing, sig) # {}
                THEN WithSignature(merged, sig) = WithSignature(existing, sig)
                ELSE Cardinality(WithSignature(merged, sig)) = 1
    /\ DistinctSignatures(store0) => DistinctSignatures(merged)

\* an item was discarded though its text, location and author differ from
\* those of the record it collides with
C3_Witness ==
    /\ pc = "merged"
    /\ added = 0
    /\ Len(highlights) = 1
    /\ \E i \in 1..Len(existing) :
          /\ SignatureOf(existing[i]) = SignatureOf(highlights[1])
          /\ existing[i].text # highlights[1].text
          /\ existing[i].location # highlights[1].location
          /\ existing[i].author # highlights[1].author

----------------------------------------------------------------------------
(* Claims about the sampler (SpecSample).                                  *)

\* no dict object of the pool is selected twice
NoObjectTwice ==
    \A i, j \in 1..Len(selected) : selected[i] = selected[j] => i = j

\* C4 (as claimed): with fewer distinct titles than count, whatever the random
\* choices and whatever the pool (equal records included), the sampler returns
\* exactly min(count, len(pool)) members of the pool, none of them twice.
C4_FallbackReturnsMinCountPool ==
    (pc = "done" /\ Cardinality(BookKeys(pool)) < count) =>
        /\ Len(selected) = (IF count < Len(pool) THEN count ELSE Len(pool))
        /\ \A i \in 1..Len(selected) : selected[i] \in 1..Len(pool)
        /\ NoObjectTwice

\* C5: with at least count distinct titles, whatever the random choices, the
\* sampler returns exactly count highlights, no two of the same title.
C5_OnePerBook ==
    (pc = "done" /\ Cardinality(BookKeys(pool)) >= count) =>
        /\ Len(selected) = count
        /\ \A i, j \in 1..Len(selected) :
              pool[selected[i]].title = pool[selected[j]].title => i = j

\* two highlights drawn from a pool of three books, one of them with two
\* equal records
C5_Witness ==
    /\ pc = "done"
    /\ count = 2
    /\ Len(pool) = 4
    /\ Cardinality(BookKeys(pool)) = 3
    /\ pool[1] = pool[2]
    /\ Len(selected) = 2
    /\ selected[1] > selected[2]

----------------------------------------------------------------------------
(* Claims about the import run (SpecImport).                               *)

\* the clippings files of the import runs that yield no highlights
FilesWithoutHighlights ==
    {c \in ImportFiles : ParseClippings(c).highlights = <<>>}

\* C7: a run of the import changes the store only once its merge is done, by
\* opening the file and writing the full merged list, at most once; a missing
\* file or a file without highlights ends the run at sys.exit(1), and a store
\* that cannot be decoded ends the run that reads it (a dry run returns before
\* the store is read), each with no step of the run having changed the store:
\* an undecodable store is never taken for an empty one and overwritten. The
\* one write leaves the merged list in the file, or, when another writer has
\* put a longer file there since the run opened it, a file that does not
\* decode; it never leaves a list other than the merged one.
C7_NoStoreMutationOnFailure ==
    /\ [](/\ writes <= 1
          /\ writes = 1 => pc = "saved"
          /\ (pc \in Ended /\ (~file_found \/ content \in FilesWithoutHighlights)) =>
               pc = "exit")
    /\ [][/\ (pc' # pc /\ pc \notin {"merged", "opened"}) => disk' = disk
          /\ (pc' # pc /\ pc' \in {"exit", "raised", "returned"}) => pc \in {"main", "parsed"}
          /\ (pc = "parsed" /\ pc' # pc /\ highlights # <<>> /\ ~dry_run
                /\ disk.state = "corrupt") =>
               pc' = "raised"
          /\ (pc = "opened" /\ pc' = "saved") =>
               /\ writes' = 1
               /\ IsPrefixOf(existing, merged)
               /\ Len(merged) = Len(existing) + added
               /\ disk = EmptyFile => disk' = StoreOf(merged)
               /\ disk'.state = "ok" => disk'.records = merged
               /\ disk'.state = "corrupt" => disk.size > JSONSize(merged)]_vars

\* the second run found highlights and ended at the store it could not decode
C7_Witness ==
    /\ pc = "raised"
    /\ runs = 2
    /\ Len(highlights) = 2
    /\ disk = CorruptStore

====
